---- MODULE Spec2Model ----
(***************************************************************************)
(* VidMod: frame-accurate splicing (core/video_builder.py) and clip        *)
(* extraction (core/frame_extractor.py).                                   *)
(*                                                                         *)
(* Times are rationals with denominator TimeDen (seconds), frame rates are *)
(* rationals with denominator FpsDen (frames per second), so Python's      *)
(* int(time * fps) is the integer division (t * f) \div (TimeDen * FpsDen) *)
(* for the non-negative values used here.  A video file is the sequence of *)
(* its frames; a frame is <<source, index>>.  The media backend (ffmpeg /  *)
(* ffprobe) is modelled by the documented meaning of the filters the code  *)
(* passes to it, and every invocation may fail.                            *)
(***************************************************************************)
EXTENDS Integers, Sequences, FiniteSets, TLC

\* ---- bounds of the model -------------------------------------------------
TimeDen == 2        \* times are multiples of 1/TimeDen second
FpsDen == 4         \* frame rates are multiples of 1/FpsDen fps
MaxTime == 7        \* largest start/end time, in 1/TimeDen s (beyond the stream's end)
MaxBuffer == 2      \* largest buffer_seconds, in 1/TimeDen s
MaxDur == 6         \* duration of the original, in 1/TimeDen s
ReplLen == 2        \* frames of the processed (replacement) clip

\* ---- program constants ---------------------------------------------------
DefaultFps == 30        \* get_video_fps: "defaulting to 30"

Procs == {1, 2}
Dirs == {"jobA", "jobB"}            \* output_path.parent of a run
SegNames == {"before.mp4", "after.mp4", "processed_normalized.mp4", "concat_list.txt"}

Times == 0..MaxTime
Buffers == 0..MaxBuffer
FpsValues == {FpsDen, FpsDen + 2}   \* 1 fps and 1 + 2/FpsDen fps
OrigRes == <<1280, 720>>
ReplResValues == {<<1280, 720>>, <<640, 640>>}

Min(a, b) == IF a < b THEN a ELSE b
Max(a, b) == IF a > b THEN a ELSE b
Abs(a) == IF a < 0 THEN 0 - a ELSE a

\* Python int(time * fps) for time = t/TimeDen >= 0 and fps = f/FpsDen > 0.
ToFrame(t, f) == (t * f) \div (TimeDen * FpsDen)

VARIABLES
    args,          \* arguments of the calls: time range, buffer, the original, the processed clip
    op,            \* p -> operation the process runs
    outdir,        \* p -> output_path.parent
    pc,            \* p -> position in the operation
    video_info,    \* p -> result of get_video_info(original)
    has_after,     \* p -> local has_after
    norm,          \* p -> what normalize_video_fps was asked and did
    dirs,          \* temp_segments directories that exist, named by their parent
    files,         \* d -> name -> content of temp_segments/name under parent d
    output,        \* p -> content of the file at output_path
    result,        \* p -> how the call ended
    calls,         \* p -> backend cut/encode invocations made, in order
    tk,            \* the object-tracking pass: its job, its call of track_finding, the path so far
    mc,            \* the masked-effect call: its inputs, its filter graph, its output
    nz,            \* a call of normalize_video_fps on its own
    cc,            \* a call of concat_clips or build_video_from_list and its directory
    fc,            \* a call of extract_frame_crop
    sp             \* the audio separator: its cache directory and its calls

spliceVars == <<args, op, outdir, pc, video_info, has_after, norm, dirs, files, output, result, calls>>
utilVars == <<nz, cc, fc, sp>>
vars == <<args, op, outdir, pc, video_info, has_after, norm, dirs, files, output, result, calls, tk, mc,
          nz, cc, fc, sp>>

NoFile == [kind |-> "none"]
NoInfo == [fps |-> 0, width |-> 0, height |-> 0, duration |-> 0, total_frames |-> 0]
NoNorm == [done |-> FALSE]
\* no tracking pass and no masked-effect call is in progress
TkIdle == [pc |-> "idle"]
McIdle == [pc |-> "idle"]
UtilIdle ==
    /\ nz = [pc |-> "idle"]
    /\ cc = [pc |-> "idle"]
    /\ fc = [pc |-> "idle"]
    /\ sp = [pc |-> "idle"]
Running == [status |-> "running", exc |-> "", msg |-> "", stderr |-> FALSE]

Video(frames, via, fps, res) ==
    [kind |-> "video", frames |-> frames, via |-> via, fps |-> fps, res |-> res]
Partial == [kind |-> "partial", frames |-> <<>>, via |-> "trim", fps |-> 0, res |-> <<>>]
ListFile(entries) == [kind |-> "list", entries |-> entries]

Orig(p) == <<"orig", p>>
Repl(p) == <<"repl", p>>
Normd(p) == <<"norm", p>>

\* ---- the media backend ---------------------------------------------------
\* Frames of a source with n frames, in order.
FramesOf(src, n) == [k \in 1..n |-> <<src, k - 1>>]

\* ffmpeg trim filter: keeps the frames with start_frame <= index < end_frame
\* ("end_frame: the number of the first frame that should be dropped").
TrimFrames(src, n, lo, hi) ==
    LET a == Max(0, lo)
        b == Min(n, hi)
    IN  IF b <= a THEN <<>> ELSE [k \in 1..(b - a) |-> <<src, a + k - 1>>]

\* ffmpeg fps filter: n frames at rate cur become round(n * tgt / cur) frames at rate tgt.
Resample(src, n, cur, tgt) == FramesOf(src, (2 * n * tgt + cur) \div (2 * cur))

\* Frame indices (of one source) held by a sequence of frames.
Indices(frames) == {frames[k][2] : k \in 1..Len(frames)}

\* Real number of frames of the original: a constant-rate stream of the given duration.
OrigFrameCount(a) == ToFrame(a.duration, a.fps)

\* ---- FrameExtractor.get_video_info ---------------------------------------
GetVideoInfo(a) ==
    [fps |-> a.fps, width |-> OrigRes[1], height |-> OrigRes[2],
     duration |-> a.duration, total_frames |-> ToFrame(a.duration, a.fps)]

\* ---- VideoBuilder.get_video_fps ------------------------------------------
\* The probed rate, or 30.0 when the probe fails.
GetVideoFps(probeOk, fps) == IF probeOk THEN fps ELSE DefaultFps * FpsDen

\* ---- VideoBuilder.insert_segment: frame arithmetic -----------------------
InsStartFrame(a, info) == ToFrame(a.start_time, info.fps)
InsEndFrame(a, info) == ToFrame(a.end_time, info.fps)
InsBufferFrames(a, info) == ToFrame(a.buffer_seconds, info.fps)
InsBufferedStartFrame(a, info) == Max(0, InsStartFrame(a, info) - InsBufferFrames(a, info))
InsBufferedEndFrame(a, info) == InsEndFrame(a, info) + InsBufferFrames(a, info)
\* buffered_start = buffered_start_frame / fps, as the numerator over FpsDen / fps
InsBufferedStart(a, info) == [num |-> InsBufferedStartFrame(a, info) * FpsDen, den |-> info.fps]

\* "if buffered_start_frame > 0": the before segment is cut
BeforeCutNeeded(a, info) == InsBufferedStartFrame(a, info) > 0
\* trim=end_frame={buffered_start_frame}
BeforeCutFrames(src, n, a, info) == TrimFrames(src, n, 0, InsBufferedStartFrame(a, info))
\* variant: the after segment is cut only if a frame follows buffered_end_frame
AfterCutNeededStrict(a, info) == InsBufferedEndFrame(a, info) < info.total_frames - 1
\* "if buffered_end_frame < total_frames": the after segment is cut
AfterCutNeeded(a, info) == InsBufferedEndFrame(a, info) < info.total_frames
\* variant: the after segment starts one frame after buffered_end_frame
AfterCutFramesSkipFirst(src, n, a, info) == TrimFrames(src, n, InsBufferedEndFrame(a, info) + 1, n)
\* trim=start_frame={buffered_end_frame}
AfterCutFrames(src, n, a, info) == TrimFrames(src, n, InsBufferedEndFrame(a, info), n)

\* after_clip.exists() and after_clip.stat().st_size > 1000: an encoded clip with
\* at least one frame, or a file the backend left behind, is larger than that.
UsableAfter(c) == c.kind = "partial" \/ (c.kind = "video" /\ Len(c.frames) > 0)

\* variant: the replacement is listed first
ConcatEntriesReplacementFirst(a, info, hasAfter) ==
    <<"processed_normalized.mp4">>
    \o (IF InsBufferedStart(a, info).num > 0 THEN <<"before.mp4">> ELSE <<>>)
    \o (IF hasAfter THEN <<"after.mp4">> ELSE <<>>)

\* the concat list written at lines 529-534
ConcatEntries(a, info, hasAfter) ==
    (IF InsBufferedStart(a, info).num > 0 THEN <<"before.mp4">> ELSE <<>>)
    \o <<"processed_normalized.mp4">>
    \o (IF hasAfter THEN <<"after.mp4">> ELSE <<>>)

\* ---- VideoBuilder.normalize_video_fps ------------------------------------
\* variant: a clip exactly 0.5 fps off the target is copied too
NormalizeModeInclusive(cur, tgt, target_resolution) ==
    IF 2 * Abs(cur - tgt) <= FpsDen /\ target_resolution = <<>> THEN "copy" ELSE "reencode"
\* variant: a clip at the target rate is copied whatever resolution is asked
NormalizeModeRateOnly(cur, tgt, target_resolution) ==
    IF 2 * Abs(cur - tgt) < FpsDen THEN "copy" ELSE "reencode"

\* None is the empty tuple; "not target_resolution" is true for None only.
NormalizeMode(cur, tgt, target_resolution) ==
    IF 2 * Abs(cur - tgt) < FpsDen /\ target_resolution = <<>> THEN "copy" ELSE "reencode"

\* ---- FrameExtractor.extract_clip: frame arithmetic -----------------------
ClipStartFrame(a, info) == ToFrame(a.start_time, info.fps)
ClipEndFrame(a, info) == ToFrame(a.end_time, info.fps)
ClipBufferFrames(a, info) == ToFrame(a.buffer_seconds, info.fps)
ClipBufferedStartFrame(a, info) == Max(0, ClipStartFrame(a, info) - ClipBufferFrames(a, info))
\* variant: the end of the widened range is clamped to the last frame
ClipBufferedEndFrameClamped(a, info) ==
    Min(info.total_frames - 1, ClipEndFrame(a, info) + ClipBufferFrames(a, info))
ClipBufferedEndFrame(a, info) == ClipEndFrame(a, info) + ClipBufferFrames(a, info)
\* variant: the clip includes the frame at buffered_end_frame
ClipFramesInclusive(src, n, a, info) ==
    TrimFrames(src, n, ClipBufferedStartFrame(a, info), ClipBufferedEndFrame(a, info) + 1)
\* trim=start_frame={buffered_start_frame}:end_frame={buffered_end_frame}
ClipFrames(src, n, a, info) ==
    TrimFrames(src, n, ClipBufferedStartFrame(a, info), ClipBufferedEndFrame(a, info))

\* ---- state helpers --------------------------------------------------------
Raise(exc, msg, stderr, status) == [status |-> status, exc |-> exc, msg |-> msg, stderr |-> stderr]
Call(cmd, lo, hi, ok) == [cmd |-> cmd, lo |-> lo, hi |-> hi, ok |-> ok]
EmptyDir == [n \in SegNames |-> NoFile]
\* temp_dir = output_path.parent / "temp_segments"
TempDir(p) == outdir[p]
WriteFile(d, name, c) == [files EXCEPT ![d][name] = c]

ArgSet ==
    [start_time : Times, end_time : Times, buffer_seconds : Buffers,
     fps : FpsValues, duration : {MaxDur},
     repl_fps : {FpsDen + 2}, repl_res : ReplResValues]

\* ---- VideoBuilder.insert_segment -----------------------------------------
\* lines 444-475: probe the original, create temp_segments
InsStart(p) ==
    /\ op[p] = "insert_segment" /\ pc[p] = "start"
    /\ \E probeOk \in BOOLEAN :
          IF probeOk
          THEN /\ video_info' = [video_info EXCEPT ![p] = GetVideoInfo(args)]
               /\ dirs' = dirs \cup {TempDir(p)}
               /\ pc' = [pc EXCEPT ![p] = "before"]
               /\ UNCHANGED result
          ELSE /\ result' = [result EXCEPT ![p] =
                     Raise("RuntimeError", "Failed to get video info", TRUE, "raised")]
               /\ pc' = [pc EXCEPT ![p] = "done"]
               /\ UNCHANGED <<video_info, dirs>>
    /\ UNCHANGED <<tk, mc, utilVars>>
    /\ UNCHANGED <<args, op, outdir, has_after, norm, files, output, calls>>

\* lines 478-491: cut the before segment (check=True)
InsBefore(p) ==
    /\ op[p] = "insert_segment" /\ pc[p] = "before"
    /\ IF BeforeCutNeeded(args, video_info[p])
       THEN \E backendOk \in BOOLEAN :
              LET ok == backendOk /\ TempDir(p) \in dirs
                  hi == InsBufferedStartFrame(args, video_info[p])
              IN  /\ calls' = [calls EXCEPT ![p] = Append(@, Call("before", 0, hi, ok))]
                  /\ IF ok
                     THEN /\ files' = WriteFile(TempDir(p), "before.mp4",
                                 Video(BeforeCutFrames(Orig(p), OrigFrameCount(args), args, video_info[p]),
                                       "trim", video_info[p].fps, OrigRes))
                          /\ pc' = [pc EXCEPT ![p] = "after"]
                          /\ UNCHANGED result
                     ELSE /\ result' = [result EXCEPT ![p] =
                                 Raise("RuntimeError", "Failed to stitch video segments", TRUE, "raising")]
                          /\ pc' = [pc EXCEPT ![p] = "finally"]
                          /\ UNCHANGED files
       ELSE /\ pc' = [pc EXCEPT ![p] = "after"]
            /\ UNCHANGED <<files, result, calls>>
    /\ UNCHANGED <<tk, mc, utilVars>>
    /\ UNCHANGED <<args, op, outdir, video_info, has_after, norm, dirs, output>>

\* lines 493-512: cut the after segment (check=False), then test the file
InsAfter(p) ==
    /\ op[p] = "insert_segment" /\ pc[p] = "after"
    /\ IF AfterCutNeeded(args, video_info[p])
       THEN \E backend \in {"ok", "fail", "partial"} :
              LET outcome == IF TempDir(p) \in dirs THEN backend ELSE "fail"
                  lo == InsBufferedEndFrame(args, video_info[p])
                  written ==
                      IF outcome = "ok"
                      THEN WriteFile(TempDir(p), "after.mp4",
                               Video(AfterCutFrames(Orig(p), OrigFrameCount(args), args, video_info[p]),
                                     "trim", video_info[p].fps, OrigRes))
                      ELSE IF outcome = "partial"
                      THEN WriteFile(TempDir(p), "after.mp4", Partial)
                      ELSE files
              IN  /\ calls' = [calls EXCEPT ![p] =
                         Append(@, Call("after", lo, video_info[p].total_frames, outcome = "ok"))]
                  /\ files' = written
                  /\ has_after' = [has_after EXCEPT ![p] = UsableAfter(written[TempDir(p)]["after.mp4"])]
       ELSE /\ has_after' = [has_after EXCEPT ![p] = FALSE]
            /\ UNCHANGED <<files, calls>>
    /\ pc' = [pc EXCEPT ![p] = "normalize"]
    /\ UNCHANGED <<tk, mc, utilVars>>
    /\ UNCHANGED <<args, op, outdir, video_info, norm, dirs, output, result>>

\* lines 514-526 with normalize_video_fps (lines 361-412): probe the original's rate,
\* then normalize the processed segment into temp_segments/processed_normalized.mp4
InsNormalize(p) ==
    /\ op[p] = "insert_segment" /\ pc[p] = "normalize"
    /\ \E probeOk \in BOOLEAN, replProbeOk \in BOOLEAN, backendOk \in BOOLEAN :
          LET original_fps == GetVideoFps(probeOk, args.fps)
              original_resolution == <<video_info[p].width, video_info[p].height>>
              current_fps == GetVideoFps(replProbeOk, args.repl_fps)
              mode == NormalizeMode(current_fps, original_fps, original_resolution)
              ok == mode = "copy" \/ backendOk
              out == IF mode = "copy"
                     THEN Video(FramesOf(Repl(p), ReplLen), "copy", args.repl_fps, args.repl_res)
                     ELSE Video(Resample(Normd(p), ReplLen, current_fps, original_fps),
                                "reencode", original_fps, original_resolution)
          IN  /\ dirs' = dirs \cup {TempDir(p)}
              /\ norm' = [norm EXCEPT ![p] =
                     [done |-> TRUE, mode |-> mode, target_fps |-> original_fps,
                      target_resolution |-> original_resolution, ok |-> ok,
                      probe_ok |-> probeOk, current_fps |-> current_fps,
                      input_res |-> args.repl_res]]
              /\ calls' = [calls EXCEPT ![p] =
                     IF mode = "copy" THEN @ ELSE Append(@, Call("normalize", 0, 0, ok))]
              /\ IF ok
                 THEN /\ files' = WriteFile(TempDir(p), "processed_normalized.mp4", out)
                      /\ pc' = [pc EXCEPT ![p] = "write_list"]
                      /\ UNCHANGED result
                 ELSE /\ result' = [result EXCEPT ![p] =
                             Raise("RuntimeError", "Failed to normalize video fps", TRUE, "raising")]
                      /\ pc' = [pc EXCEPT ![p] = "finally"]
                      /\ UNCHANGED files
    /\ UNCHANGED <<tk, mc, utilVars>>
    /\ UNCHANGED <<args, op, outdir, video_info, has_after, output>>

\* lines 528-534: write concat_list.txt
InsWriteList(p) ==
    /\ op[p] = "insert_segment" /\ pc[p] = "write_list"
    /\ IF TempDir(p) \in dirs
       THEN /\ files' = WriteFile(TempDir(p), "concat_list.txt",
                   ListFile(ConcatEntries(args, video_info[p], has_after[p])))
            /\ pc' = [pc EXCEPT ![p] = "concat"]
            /\ UNCHANGED result
       ELSE /\ result' = [result EXCEPT ![p] =
                   Raise("FileNotFoundError", "concat_list.txt", FALSE, "raising")]
            /\ pc' = [pc EXCEPT ![p] = "finally"]
            /\ UNCHANGED files
    /\ UNCHANGED <<tk, mc, utilVars>>
    /\ UNCHANGED <<args, op, outdir, video_info, has_after, norm, dirs, output, calls>>

\* The concat demuxer with -c copy: the frames of the listed files, in list order.
RECURSIVE ConcatFrames(_, _)
ConcatFrames(dir, entries) ==
    IF entries = <<>> THEN <<>>
    ELSE dir[Head(entries)].frames \o ConcatFrames(dir, Tail(entries))

\* The backend can read the list and every file it names.
Concatenable(dir) ==
    /\ dir["concat_list.txt"].kind = "list"
    /\ \A k \in 1..Len(dir["concat_list.txt"].entries) :
          dir[dir["concat_list.txt"].entries[k]].kind = "video"

\* lines 536-549: concatenate (check=True)
InsConcat(p) ==
    /\ op[p] = "insert_segment" /\ pc[p] = "concat"
    /\ \E backendOk \in BOOLEAN :
          LET dir == files[TempDir(p)]
              ok == backendOk /\ TempDir(p) \in dirs /\ Concatenable(dir)
          IN  /\ calls' = [calls EXCEPT ![p] = Append(@, Call("concat", 0, 0, ok))]
              /\ IF ok
                 THEN /\ output' = [output EXCEPT ![p] =
                             Video(ConcatFrames(dir, dir["concat_list.txt"].entries),
                                   "concat", video_info[p].fps, OrigRes)]
                      /\ result' = [result EXCEPT ![p] = Raise("", "", FALSE, "returning")]
                 ELSE /\ result' = [result EXCEPT ![p] =
                             Raise("RuntimeError", "Failed to stitch video segments", TRUE, "raising")]
                      /\ UNCHANGED output
    /\ pc' = [pc EXCEPT ![p] = "finally"]
    /\ UNCHANGED <<tk, mc, utilVars>>
    /\ UNCHANGED <<args, op, outdir, video_info, has_after, norm, dirs, files>>

\* variant: temp_segments is removed on the success path only
InsFinallyKeepOnError(p) ==
    /\ op[p] = "insert_segment" /\ pc[p] = "finally"
    /\ dirs' = IF result[p].status = "returning" THEN dirs \ {TempDir(p)} ELSE dirs
    /\ files' = IF result[p].status = "returning"
                THEN [files EXCEPT ![TempDir(p)] = EmptyDir] ELSE files
    /\ result' = [result EXCEPT ![p].status = IF @ = "raising" THEN "raised" ELSE "returned"]
    /\ pc' = [pc EXCEPT ![p] = "done"]
    /\ UNCHANGED <<tk, mc, utilVars>>
    /\ UNCHANGED <<args, op, outdir, video_info, has_after, norm, output, calls>>

\* lines 554-558: finally: remove temp_segments, then return or raise
InsFinally(p) ==
    /\ op[p] = "insert_segment" /\ pc[p] = "finally"
    /\ dirs' = dirs \ {TempDir(p)}
    /\ files' = [files EXCEPT ![TempDir(p)] = EmptyDir]
    /\ result' = [result EXCEPT ![p].status = IF @ = "raising" THEN "raised" ELSE "returned"]
    /\ pc' = [pc EXCEPT ![p] = "done"]
    /\ UNCHANGED <<tk, mc, utilVars>>
    /\ UNCHANGED <<args, op, outdir, video_info, has_after, norm, output, calls>>

InsertSegment(p) ==
    \/ InsStart(p)
    \/ InsBefore(p)
    \/ InsAfter(p)
    \/ InsNormalize(p)
    \/ InsWriteList(p)
    \/ InsConcat(p)
    \/ InsFinally(p)

\* ---- FrameExtractor.extract_clip (lines 208-246) -------------------------
ExtractClip(p) ==
    /\ op[p] = "extract_clip" /\ pc[p] = "start"
    /\ \E probeOk \in BOOLEAN, backendOk \in BOOLEAN :
          IF probeOk
          THEN LET info == GetVideoInfo(args)
               IN  /\ video_info' = [video_info EXCEPT ![p] = info]
                   /\ calls' = [calls EXCEPT ![p] =
                          Append(@, Call("clip", ClipBufferedStartFrame(args, info),
                                         ClipBufferedEndFrame(args, info), backendOk))]
                   /\ IF backendOk
                      THEN /\ output' = [output EXCEPT ![p] =
                                  Video(ClipFrames(Orig(p), OrigFrameCount(args), args, info),
                                        "trim", info.fps, OrigRes)]
                           /\ result' = [result EXCEPT ![p] = Raise("", "", FALSE, "returned")]
                      ELSE /\ result' = [result EXCEPT ![p] =
                                  Raise("RuntimeError", "Failed to extract clip", TRUE, "raised")]
                           /\ UNCHANGED output
          ELSE /\ result' = [result EXCEPT ![p] =
                     Raise("RuntimeError", "Failed to get video info", TRUE, "raised")]
               /\ UNCHANGED <<video_info, calls, output>>
    /\ pc' = [pc EXCEPT ![p] = "done"]
    /\ UNCHANGED <<tk, mc, utilVars>>
    /\ UNCHANGED <<args, op, outdir, has_after, norm, dirs, files>>

\* ---- specifications ------------------------------------------------------
InitCommon ==
    /\ pc = [p \in Procs |-> "start"]
    /\ video_info = [p \in Procs |-> NoInfo]
    /\ has_after = [p \in Procs |-> FALSE]
    /\ norm = [p \in Procs |-> NoNorm]
    /\ dirs = {}
    /\ files = [d \in Dirs |-> EmptyDir]
    /\ output = [p \in Procs |-> NoFile]
    /\ result = [p \in Procs |-> Running]
    /\ calls = [p \in Procs |-> <<>>]
    /\ tk = TkIdle
    /\ mc = McIdle
    /\ UtilIdle

\* One insert_segment and one extract_clip on the same original and time range,
\* writing to different directories.
Init ==
    /\ args \in ArgSet
    /\ op = (1 :> "insert_segment" @@ 2 :> "extract_clip")
    /\ outdir = (1 :> "jobA" @@ 2 :> "jobB")
    /\ InitCommon

Next == \E p \in Procs : InsertSegment(p) \/ ExtractClip(p)

Spec == Init /\ [][Next]_vars

\* Two insert_segment runs with different output paths, interleaved; the two
\* output paths may lie in the same directory.
ConcArgSet ==
    [start_time : {0, TimeDen}, end_time : {2 * TimeDen}, buffer_seconds : {0},
     fps : {FpsDen}, duration : {MaxDur},
     repl_fps : {FpsDen + 2}, repl_res : {OrigRes}]

InitConc ==
    /\ args \in ConcArgSet
    /\ op = [p \in Procs |-> "insert_segment"]
    /\ outdir \in [Procs -> Dirs]
    /\ InitCommon

NextConc == \E p \in Procs : InsertSegment(p)

SpecConc == InitConc /\ [][NextConc]_vars

\* ---- vocabulary of the properties ----------------------------------------
\* floor(time * frameRate) of the original, computed from the arguments alone
FloorFrame(t) == (t * args.fps) \div (TimeDen * FpsDen)
RangeStart == Max(0, FloorFrame(args.start_time) - FloorFrame(args.buffer_seconds))
RangeEnd == FloorFrame(args.end_time) + FloorFrame(args.buffer_seconds)
TotalFrames == FloorFrame(args.duration)
AllIdx == 0..(TotalFrames - 1)
HalfOpenRange == {i \in AllIdx : RangeStart <= i /\ i < RangeEnd}
ClosedRange == {i \in AllIdx : RangeStart <= i /\ i <= RangeEnd}
\* the time range lies inside the stream and is not inverted
RangeInside == args.start_time <= args.end_time /\ args.end_time <= args.duration

Inserting(p) == op[p] = "insert_segment"
Seg(p, name) == files[TempDir(p)][name]
SegIdx(p, name) == IF Seg(p, name).kind = "video" THEN Indices(Seg(p, name).frames) ELSE {}
SegLen(p, name) == IF Seg(p, name).kind = "video" THEN Len(Seg(p, name).frames) ELSE 0
HasCall(p, cmd) == \E k \in 1..Len(calls[p]) : calls[p][k].cmd = cmd
FailedCall(p, cmd) == \E k \in 1..Len(calls[p]) : calls[p][k].cmd = cmd /\ ~calls[p][k].ok
\* both cut steps are behind the run and its segment files are still on disk
CutsDone(p) == pc[p] \in {"normalize", "write_list", "concat"}
PastBefore(p) == pc[p] \in {"after", "normalize", "write_list", "concat", "finally"} \/ norm[p].done
PastAfter(p) == pc[p] \in {"normalize", "write_list", "concat"} \/ norm[p].done
\* the run has stitched its output and is about to clean up and return
Returning(p) == pc[p] = "finally" /\ result[p].status = "returning"
Listed(p, name) ==
    /\ Seg(p, "concat_list.txt").kind = "list"
    /\ \E k \in 1..Len(Seg(p, "concat_list.txt").entries) : Seg(p, "concat_list.txt").entries[k] = name
\* indices of the original's frames in the stitched output
OutputOrigIdx(p) ==
    {output[p].frames[k][2] : k \in {j \in 1..Len(output[p].frames) : output[p].frames[j][1] = Orig(p)}}

C2_CutConditions ==
    \A p \in Procs : Inserting(p) =>
        /\ PastBefore(p) => (HasCall(p, "before") <=> RangeStart > 0)
        /\ PastAfter(p) => (HasCall(p, "after") <=> RangeEnd < TotalFrames)
        /\ \A k \in 1..Len(calls[p]) :
              /\ calls[p][k].cmd = "before" => calls[p][k].lo = 0 /\ calls[p][k].hi = RangeStart
              /\ calls[p][k].cmd = "after" => calls[p][k].lo = RangeEnd
        /\ (CutsDone(p) /\ HasCall(p, "before")) =>
              SegIdx(p, "before.mp4") = {i \in AllIdx : i < RangeStart}
        /\ (CutsDone(p) /\ HasCall(p, "after") /\ Seg(p, "after.mp4").kind = "video") =>
              SegIdx(p, "after.mp4") = {i \in AllIdx : i >= RangeEnd}

\* C2 as stated: 'after' is cut iff endFrame < totalFrameCount - 1 and starts at endFrame + 1.
C2_Original ==
    \A p \in Procs : Inserting(p) =>
        /\ PastBefore(p) => (HasCall(p, "before") <=> RangeStart > 0)
        /\ PastAfter(p) => (HasCall(p, "after") <=> RangeEnd < TotalFrames - 1)
        /\ (CutsDone(p) /\ HasCall(p, "after") /\ Seg(p, "after.mp4").kind = "video") =>
              SegIdx(p, "after.mp4") = {i \in AllIdx : i > RangeEnd}

\* both segments were cut, and 'after' is the single last frame of the stream
C2_Witness ==
    \E p \in Procs :
        /\ Inserting(p) /\ CutsDone(p)
        /\ HasCall(p, "before") /\ HasCall(p, "after")
        /\ RangeEnd = TotalFrames - 1
        /\ SegIdx(p, "after.mp4") = {RangeEnd}
        /\ SegIdx(p, "before.mp4") # {}

\* ---- C3 -------------------------------------------------------------------
\* C3: once insert_segment has returned or raised, whatever the backend did, its
\* temp_segments directory and every file in it are gone.
C3_TempDirRemoved ==
    \A p \in Procs : (Inserting(p) /\ pc[p] = "done") =>
        /\ TempDir(p) \notin dirs
        /\ \A n \in SegNames : files[TempDir(p)][n].kind = "none"

\* a run that raised after it had written segment files
C3_Witness ==
    \E p \in Procs :
        /\ Inserting(p) /\ pc[p] = "done" /\ result[p].status = "raised"
        /\ \E k \in 1..Len(calls[p]) : calls[p][k].cmd = "before" /\ calls[p][k].ok
        /\ FailedCall(p, "concat")

\* ---- C4 -------------------------------------------------------------------
\* C4: two insert_segment runs with different output paths do not disturb each
\* other: while a run still needs a segment file it wrote (before.mp4 from the cut
\* to the concatenation, processed_normalized.mp4 and concat_list.txt from their
\* writing to the concatenation), the file is there and is the one it wrote.
C4_NoInterference ==
    \A p \in Procs : Inserting(p) =>
        /\ (pc[p] \in {"after", "normalize", "write_list", "concat"} /\ HasCall(p, "before")) =>
              /\ Seg(p, "before.mp4").kind = "video"
              /\ \A k \in 1..Len(Seg(p, "before.mp4").frames) :
                    Seg(p, "before.mp4").frames[k][1] = Orig(p)
        /\ pc[p] \in {"write_list", "concat"} =>
              /\ Seg(p, "processed_normalized.mp4").kind = "video"
              /\ \A k \in 1..Len(Seg(p, "processed_normalized.mp4").frames) :
                    Seg(p, "processed_normalized.mp4").frames[k][1] = Normd(p)
        /\ pc[p] = "concat" => Seg(p, "concat_list.txt").kind = "list"

\* ---- C5 -------------------------------------------------------------------
\* C5: a run whose 'before' or 'after' extraction failed never returns a stitched
\* video; it ends with an error that carries the backend's diagnostic text.
C5_ExtractionFailureSurfaced ==
    \A p \in Procs : (Inserting(p) /\ (FailedCall(p, "before") \/ FailedCall(p, "after"))) =>
        /\ result[p].status \notin {"returning", "returned"}
        /\ pc[p] = "done" => (result[p].status = "raised" /\ result[p].stderr)

\* ---- C6 -------------------------------------------------------------------
\* C6: the concat list is before (if cut), normalized replacement, after (if
\* usable), in this order; the replacement is always listed, exactly once, and the
\* stitched output is the frames of the three files in that order.
C6_ConcatOrder ==
    \A p \in Procs : (Inserting(p) /\ Seg(p, "concat_list.txt").kind = "list") =>
        /\ Seg(p, "concat_list.txt").entries \in
              { <<"processed_normalized.mp4">>,
                <<"before.mp4", "processed_normalized.mp4">>,
                <<"processed_normalized.mp4", "after.mp4">>,
                <<"before.mp4", "processed_normalized.mp4", "after.mp4">> }
        /\ Listed(p, "before.mp4") <=> HasCall(p, "before")
        /\ Listed(p, "after.mp4") <=> has_after[p]
        /\ Returning(p) =>
              output[p].frames =
                  (IF Listed(p, "before.mp4") THEN Seg(p, "before.mp4").frames ELSE <<>>)
                  \o Seg(p, "processed_normalized.mp4").frames
                  \o (IF Listed(p, "after.mp4") THEN Seg(p, "after.mp4").frames ELSE <<>>)

\* a stitched output whose list names all three segments
C6_Witness ==
    \E p \in Procs :
        /\ Inserting(p) /\ Returning(p)
        /\ Seg(p, "concat_list.txt").kind = "list"
        /\ Seg(p, "concat_list.txt").entries = <<"before.mp4", "processed_normalized.mp4", "after.mp4">>
        /\ output[p].frames[1][1] = Orig(p)
        /\ output[p].frames[Len(output[p].frames)][1] = Orig(p)

InvalidRange ==
    \/ args.end_time < args.start_time
    \/ args.end_time > args.duration
    \/ args.start_time > args.duration

\* C8: for an inverted or out-of-bounds time range, insert_segment and
\* extract_clip invoke no backend cut or encode and do not return a result.
C8_InvalidRangeRejected ==
    \A p \in Procs : InvalidRange =>
        /\ calls[p] = <<>>
        /\ result[p].status \notin {"returning", "returned"}

\* ---- C9 -------------------------------------------------------------------
ClampIdx(i) == Max(0, Min(TotalFrames - 1, i))

\* C9 (as amended): with bufferFrames = floor(bufferSeconds * frameRate), the
\* widened range handed to the backend is [max(0, startFrame - bufferFrames),
\* endFrame + bufferFrames): the lower end is clamped to 0 only and the upper end
\* is not clamped; the frames cut are those of that range that exist in the stream.
C9_WidenedRange ==
    \A p \in Procs : \A k \in 1..Len(calls[p]) :
        /\ calls[p][k].cmd = "before" => calls[p][k].hi = RangeStart
        /\ calls[p][k].cmd = "after" => calls[p][k].lo = RangeEnd
        /\ calls[p][k].cmd = "clip" =>
              /\ calls[p][k].lo = RangeStart /\ calls[p][k].hi = RangeEnd
              /\ calls[p][k].ok => Indices(output[p].frames) = HalfOpenRange

\* C9 as stated: both ends of the widened range are clamped to [0, totalFrameCount - 1].
C9_Original ==
    \A p \in Procs : \A k \in 1..Len(calls[p]) :
        /\ calls[p][k].cmd = "before" =>
              calls[p][k].hi = ClampIdx(FloorFrame(args.start_time) - FloorFrame(args.buffer_seconds))
        /\ calls[p][k].cmd = "after" => calls[p][k].lo = ClampIdx(RangeEnd)
        /\ calls[p][k].cmd = "clip" =>
              /\ calls[p][k].lo = ClampIdx(FloorFrame(args.start_time) - FloorFrame(args.buffer_seconds))
              /\ calls[p][k].hi = ClampIdx(RangeEnd)

\* a buffered clip whose widened range reaches beyond the last frame
C9_Witness ==
    \E p \in Procs : \E k \in 1..Len(calls[p]) :
        /\ calls[p][k].cmd = "clip" /\ calls[p][k].ok
        /\ FloorFrame(args.buffer_seconds) > 0
        /\ FloorFrame(args.start_time) - FloorFrame(args.buffer_seconds) < 0
        /\ calls[p][k].hi > TotalFrames - 1
        /\ RangeInside

\* ---- C10 ------------------------------------------------------------------
\* C10: extract_clip and insert_segment compute the same buffered start and end
\* frame for the same arguments, and the frames of the extracted clip are exactly
\* the original's frames that insert_segment leaves out of 'before' and 'after'.
C10_SameFrames ==
    /\ InsBufferedStartFrame(args, GetVideoInfo(args)) = ClipBufferedStartFrame(args, GetVideoInfo(args))
    /\ InsBufferedEndFrame(args, GetVideoInfo(args)) = ClipBufferedEndFrame(args, GetVideoInfo(args))
    /\ \A p \in Procs, q \in Procs :
          ( /\ Inserting(p) /\ CutsDone(p)
            /\ ~FailedCall(p, "before") /\ ~FailedCall(p, "after")
            /\ op[q] = "extract_clip" /\ result[q].status = "returned" ) =>
          /\ Indices(output[q].frames) =
                AllIdx \ (SegIdx(p, "before.mp4") \cup SegIdx(p, "after.mp4"))
          /\ \A k \in 1..Len(calls[p]), j \in 1..Len(calls[q]) :
                /\ calls[p][k].cmd = "before" => calls[p][k].hi = calls[q][j].lo
                /\ calls[p][k].cmd = "after" => calls[p][k].lo = calls[q][j].hi

\* a buffered mid-stream range: the clip and both segments exist side by side
C10_Witness ==
    \E p \in Procs, q \in Procs :
        /\ Inserting(p) /\ CutsDone(p)
        /\ op[q] = "extract_clip" /\ result[q].status = "returned"
        /\ FloorFrame(args.buffer_seconds) > 0
        /\ SegIdx(p, "before.mp4") # {} /\ SegIdx(p, "after.mp4") # {}
        /\ Len(output[q].frames) > 0


\* ==== object tracking: src/core/tracker.py ================================
\* ---- bounds and program constants of the tracking pass -------------------
LongFrames == 250      \* frames of the longest job
target_points == 100   \* tracker.py: target_points
max_track_dim == 640   \* tracker.py: max_track_dim

\* A percentage kept as an exact fraction <<numerator, denominator>>.
Pct(num, den) == <<num, den>>

\* finding["box"]: the key may be absent, or its value an empty mapping
NoBoxKey == [has_key |-> FALSE, empty |-> TRUE, top |-> 0, left |-> 0, width |-> 0, height |-> 0]
EmptyBox == [has_key |-> TRUE, empty |-> TRUE, top |-> 0, left |-> 0, width |-> 0, height |-> 0]
SeedBox == [has_key |-> TRUE, empty |-> FALSE, top |-> 40, left |-> 40, width |-> 20, height |-> 20]
SeedBoxWide == [has_key |-> TRUE, empty |-> FALSE, top |-> 10, left |-> 5, width |-> 55, height |-> 35]

Finding(id, type, startTime, endTime, box) ==
    [id |-> id, type |-> type, startTime |-> startTime, endTime |-> endTime, box |-> box,
     has_path |-> FALSE, path |-> <<>>]

\* "box" not in finding or not finding["box"], negated
HasBoxKeyOnly(finding) == finding.box.has_key
HasBox(finding) == finding.box.has_key /\ ~finding.box.empty

\* Python int(time * fps): truncation toward zero, for a time of either sign
IntFrame(t, f) ==
    LET prod == t * f
        den == TimeDen * FpsDen
    IN IF prod >= 0 THEN prod \div den ELSE 0 - ((0 - prod) \div den)

ClampStart(start_idx, n) == Max(0, Min(start_idx, n - 1))
ClampEndUnordered(end_idx, start_idx, n) == Min(end_idx, n - 1)
ClampEnd(end_idx, start_idx, n) == Max(start_idx, Min(end_idx, n - 1))

\* image.shape after the optional downscale of the start frame: <<track_w, track_h>>
Scaled(w) == w > max_track_dim
TrackDims(w, h) ==
    IF Scaled(w) THEN <<max_track_dim, (h * max_track_dim) \div w>> ELSE <<w, h>>

\* the seed box in pixels of the tracking space: (x, y, box_w, box_h)
PixelBox(box, track_w, track_h) ==
    <<(box.left * track_w) \div 100, (box.top * track_h) \div 100,
      (box.width * track_w) \div 100, (box.height * track_h) \div 100>>

SeedEntryPixels(start_idx, box, track_w, track_h) ==
    [frame |-> start_idx,
     top |-> Pct(PixelBox(box, track_w, track_h)[2], 1),
     left |-> Pct(PixelBox(box, track_w, track_h)[1], 1),
     width |-> Pct(PixelBox(box, track_w, track_h)[3], 1),
     height |-> Pct(PixelBox(box, track_w, track_h)[4], 1)]
SeedEntry(start_idx, box, track_w, track_h) ==
    [frame |-> start_idx, top |-> Pct(box.top, 1), left |-> Pct(box.left, 1),
     width |-> Pct(box.width, 1), height |-> Pct(box.height, 1)]

\* a tracked pixel box (tx, ty, tw, th) back in percent of the tracking space
TrackedEntry(i, tbox, track_w, track_h) ==
    [frame |-> i, top |-> Pct(tbox[2] * 100, track_h), left |-> Pct(tbox[1] * 100, track_w),
     width |-> Pct(tbox[3] * 100, track_w), height |-> Pct(tbox[4] * 100, track_h)]

SkipRate(total_frames_in_range) == Max(1, total_frames_in_range \div target_points)

\* range(start_idx + 1, end_idx + 1) starts here
FirstLoopIndexSeed(start_idx) == start_idx
FirstLoopIndex(start_idx) == start_idx + 1

\* the loop body runs for i: not ((i - start_idx) % skip_rate != 0 and i != end_idx)
SampledOnCadence(i, start_idx, end_idx, skip_rate) == (i - start_idx) % skip_rate = 0
Sampled(i, start_idx, end_idx, skip_rate) ==
    (i - start_idx) % skip_rate = 0 \/ i = end_idx

NoTracker == [created |-> FALSE, inits |-> 0, updates |-> <<>>, lost_at |-> <<>>]

\* cv2.imread gave None for a frame of the loop: continue
OnFrameUnreadableStop(t) == [t EXCEPT !.pc = "return", !.ret = t.results]
OnFrameUnreadable(t) == [t EXCEPT !.i = t.i + 1]

\* finding["path"] = tracked_path
StorePathAsBox(finding, tracked_path) ==
    [finding EXCEPT !.has_path = TRUE, !.path = tracked_path,
                    !.box.top = tracked_path[Len(tracked_path)].frame]
StorePath(finding, tracked_path) ==
    [finding EXCEPT !.has_path = TRUE, !.path = tracked_path]

\* tracker.update reported failure: the loop is left
OnTrackingLostContinue(t) == [t EXCEPT !.i = t.i + 1]
OnTrackingLost(t) == [t EXCEPT !.pc = "return", !.ret = t.results]

\* ---- inputs of a tracking pass -------------------------------------------
LongFps == DefaultFps * FpsDen     \* 30 fps
LowFps == FpsDen + 2               \* 1.5 fps
Landscape == <<1280, 720>>

TrackJob(mode, findings, frame_paths, disk_frames, fps, dims, bad) ==
    [pc |-> IF mode = "job" THEN "job" ELSE "track",
     mode |-> mode, findings |-> findings, frame_paths |-> frame_paths,
     disk_frames |-> disk_frames, fps |-> fps, width |-> dims[1], height |-> dims[2],
     bad |-> bad, given |-> findings,
     fi |-> 1, start_idx |-> 0, end_idx |-> 0, skip_rate |-> 1, i |-> 0,
     results |-> <<>>, scaled |-> FALSE, track_w |-> 0, track_h |-> 0, roi |-> <<0, 0, 0, 0>>,
     tracker |-> NoTracker, loads |-> <<>>, fed |-> {}, sampled |-> {},
     calls |-> 0, ret |-> <<>>, exc |-> ""]

\* long time ranges at 30 fps: the sampling cadence
LongInputs ==
    {TrackJob("job", <<Finding(1, "Logo", s, e, SeedBox)>>, n, 0, LongFps, Landscape,
              IF b THEN {n - 1} ELSE {}) :
        s \in {0, TimeDen}, e \in {7 * TimeDen, 8 * TimeDen, 9 * TimeDen},
        n \in {LongFrames - 50, LongFrames}, b \in BOOLEAN}

\* short jobs: the index arithmetic, times before 0, inverted and beyond the stream
IndexInputs ==
    {TrackJob("job", <<Finding(1, "Logo", s, e, SeedBox)>>, n, 0, f, Landscape, {}) :
        s \in {0 - 1, 0, 1, 3, MaxTime}, e \in {0 - 1, 0, 2, 3, 5, MaxTime},
        n \in {1, 3, 5}, f \in {LowFps, LongFps}}

\* frames that cannot be read
LoadInputs ==
    {TrackJob("job", <<Finding(1, "Logo", s, e, SeedBox)>>, 5, 0, LowFps, Landscape, bad) :
        s \in {0, 2}, e \in {3, 5, MaxTime}, bad \in SUBSET (0..4)}

\* frame sizes
FrameDims == {<<1280, 720>>, <<640, 480>>, <<641, 480>>, <<480, 800>>, <<720, 1280>>, <<320, 240>>}
DimInputs ==
    {TrackJob("job", <<Finding(1, "Logo", 0, MaxTime, box)>>, 3, 0, LowFps, dims, {}) :
        dims \in FrameDims, box \in {SeedBox, SeedBoxWide}}

\* findings without a seed box, direct calls of track_finding, frames found on disk
BoxInputs ==
    {TrackJob(mode, <<Finding(1, "Logo", 0, 3, box), Finding(2, "Face", 2, MaxTime, aux)>>,
              n, disk, LowFps, Landscape, {}) :
        mode \in {"job", "direct"}, box \in {NoBoxKey, EmptyBox, SeedBox},
        aux \in {NoBoxKey, EmptyBox, SeedBoxWide}, n \in {0, 3}, disk \in {0, 4}}

TrackInputs == LongInputs \cup IndexInputs \cup LoadInputs \cup DimInputs \cup BoxInputs

\* ---- track_findings_in_job ----------------------------------------------
\* job.frame_paths after the refresh from disk
RefreshFramePaths(frame_paths, disk_frames) ==
    IF disk_frames > frame_paths THEN disk_frames ELSE frame_paths

TrackFindingsInJob ==
    /\ tk.pc = "job"
    /\ LET n == RefreshFramePaths(tk.frame_paths, tk.disk_frames)
       IN tk' = [tk EXCEPT !.frame_paths = n,
                           !.pc = IF n = 0 THEN "done" ELSE "loop"]
    /\ UNCHANGED <<spliceVars, mc, utilVars>>

\* for finding in findings: the guard before the call
JobNextFinding ==
    /\ tk.pc = "loop"
    /\ tk' = IF tk.fi > Len(tk.findings)
             THEN [tk EXCEPT !.pc = "done"]
             ELSE IF HasBox(tk.findings[tk.fi])
                  THEN [tk EXCEPT !.pc = "track"]
                  ELSE [tk EXCEPT !.fi = tk.fi + 1]
    /\ UNCHANGED <<spliceVars, mc, utilVars>>

\* ---- ObjectTracker.track_finding -----------------------------------------
\* from the entry of track_finding to the head of its loop
TrackFindingStart ==
    /\ tk.pc = "track"
    /\ LET finding == tk.findings[tk.fi]
           n == tk.frame_paths
           start_idx == ClampStart(IntFrame(finding.startTime, tk.fps), n)
           end_idx == ClampEnd(IntFrame(finding.endTime, tk.fps), start_idx, n)
           dims == TrackDims(tk.width, tk.height)
           roi == PixelBox(finding.box, dims[1], dims[2])
           called == [tk EXCEPT !.calls = tk.calls + 1, !.results = <<>>, !.ret = <<>>,
                                !.tracker = NoTracker, !.loads = <<>>, !.fed = {},
                                !.sampled = {}]
       IN tk' = IF ~HasBox(finding)
                THEN [called EXCEPT !.pc = "return"]
                ELSE IF start_idx \notin 0..(n - 1)
                THEN [called EXCEPT !.pc = "done", !.exc = "IndexError",
                                    !.start_idx = start_idx, !.end_idx = end_idx]
                ELSE IF start_idx \in tk.bad
                THEN [called EXCEPT !.pc = "return", !.loads = <<start_idx>>,
                                    !.start_idx = start_idx, !.end_idx = end_idx]
                ELSE [called EXCEPT
                        !.pc = "frames",
                        !.start_idx = start_idx, !.end_idx = end_idx,
                        !.loads = <<start_idx>>,
                        !.scaled = Scaled(tk.width),
                        !.track_w = dims[1], !.track_h = dims[2], !.roi = roi,
                        !.tracker = [created |-> TRUE, inits |-> 1, updates |-> <<>>,
                                     lost_at |-> <<>>],
                        !.fed = {dims},
                        !.results = <<SeedEntry(start_idx, finding.box, dims[1], dims[2])>>,
                        !.skip_rate = SkipRate(end_idx - start_idx),
                        !.i = FirstLoopIndex(start_idx)]
    /\ UNCHANGED <<spliceVars, mc, utilVars>>

\* an iteration the cadence passes over
TrackSkip ==
    /\ tk.pc = "frames"
    /\ tk.i <= tk.end_idx
    /\ ~Sampled(tk.i, tk.start_idx, tk.end_idx, tk.skip_rate)
    /\ tk' = [tk EXCEPT !.i = tk.i + 1]
    /\ UNCHANGED <<spliceVars, mc, utilVars>>

\* an iteration that loads frame i and, if it loads, updates the tracker
TrackSample ==
    /\ tk.pc = "frames"
    /\ tk.i <= tk.end_idx
    /\ Sampled(tk.i, tk.start_idx, tk.end_idx, tk.skip_rate)
    /\ LET i == tk.i
           seen == [tk EXCEPT !.sampled = tk.sampled \cup {i}]
           loaded == [seen EXCEPT !.loads = Append(tk.loads, i)]
           frame_dims == IF tk.scaled THEN <<tk.track_w, tk.track_h>>
                                      ELSE <<tk.width, tk.height>>
           updated == [loaded EXCEPT !.tracker.updates = Append(tk.tracker.updates, i),
                                     !.fed = tk.fed \cup {frame_dims}]
       IN IF i \notin 0..(tk.frame_paths - 1)
          THEN tk' = [seen EXCEPT !.pc = "done", !.exc = "IndexError"]
          ELSE IF i \in tk.bad
          THEN tk' = OnFrameUnreadable(loaded)
          ELSE \E success \in BOOLEAN :
                  tk' = IF success
                        THEN [updated EXCEPT
                                !.results = Append(tk.results,
                                              TrackedEntry(i, tk.roi, tk.track_w, tk.track_h)),
                                !.i = i + 1]
                        ELSE OnTrackingLost(
                                [updated EXCEPT !.tracker.lost_at = Append(tk.tracker.lost_at, i)])
    /\ UNCHANGED <<spliceVars, mc, utilVars>>

\* the loop is exhausted: return results
TrackLoopEnd ==
    /\ tk.pc = "frames"
    /\ tk.i > tk.end_idx
    /\ tk' = [tk EXCEPT !.pc = "return", !.ret = tk.results]
    /\ UNCHANGED <<spliceVars, mc, utilVars>>

\* back in the caller: track_findings_in_job stores a non-empty path
TrackReturn ==
    /\ tk.pc = "return"
    /\ tk' = IF tk.mode = "direct"
             THEN [tk EXCEPT !.pc = "done"]
             ELSE IF tk.ret # <<>>
                  THEN [tk EXCEPT !.findings[tk.fi] = StorePath(tk.findings[tk.fi], tk.ret),
                                  !.fi = tk.fi + 1, !.pc = "loop"]
                  ELSE [tk EXCEPT !.fi = tk.fi + 1, !.pc = "loop"]
    /\ UNCHANGED <<spliceVars, mc, utilVars>>

\* the splice operations are not running
IdleArgs ==
    [start_time |-> 0, end_time |-> 0, buffer_seconds |-> 0, fps |-> FpsDen,
     duration |-> MaxDur, repl_fps |-> FpsDen + 2, repl_res |-> OrigRes]
SpliceIdle ==
    /\ args = IdleArgs
    /\ op = [p \in Procs |-> "none"]
    /\ outdir = (1 :> "jobA" @@ 2 :> "jobB")
    /\ pc = [p \in Procs |-> "done"]
    /\ video_info = [p \in Procs |-> NoInfo]
    /\ has_after = [p \in Procs |-> FALSE]
    /\ norm = [p \in Procs |-> NoNorm]
    /\ dirs = {}
    /\ files = [d \in Dirs |-> EmptyDir]
    /\ output = [p \in Procs |-> NoFile]
    /\ result = [p \in Procs |-> Running]
    /\ calls = [p \in Procs |-> <<>>]

InitTrack ==
    /\ SpliceIdle
    /\ tk \in TrackInputs
    /\ mc = McIdle
    /\ UtilIdle

NextTrack ==
    \/ TrackFindingsInJob
    \/ JobNextFinding
    \/ TrackFindingStart
    \/ TrackSkip
    \/ TrackSample
    \/ TrackLoopEnd
    \/ TrackReturn

SpecTrack == InitTrack /\ [][NextTrack]_vars


\* ---- vocabulary of the tracking properties -------------------------------
\* track_finding has returned to its caller and the caller has not moved on
Returned == tk.pc = "return"
\* track_finding is inside its loop or has just returned
InCall == tk.pc \in {"frames", "return"}
CurFinding == tk.findings[tk.fi]
PathFrames(path) == {path[k].frame : k \in 1..Len(path)}
\* floor(seconds * frameRate) of the current finding
FloorIdx(t) == (t * tk.fps) \div (TimeDen * FpsDen)
\* tracker.update has reported a failure during the current call
Lost == tk.tracker.lost_at # <<>>
LostFrame == tk.tracker.lost_at[1]
StartLoads == tk.start_idx \notin tk.bad

\* C11: the path returned by track_finding has at most 101 entries (the target
\* of 100 sampled points plus a forced end frame), however long the range is.
C11_PathBounded == Returned => Len(tk.ret) <= target_points + 1

\* C12 as stated: for every finding with a seed box the returned path starts
\* with the seed box, in its original percentages, tagged with the start frame.
C12_Original ==
    (Returned /\ HasBox(CurFinding)) =>
        /\ tk.ret # <<>>
        /\ tk.ret[1] = [frame |-> tk.start_idx,
                        top |-> <<CurFinding.box.top, 1>>, left |-> <<CurFinding.box.left, 1>>,
                        width |-> <<CurFinding.box.width, 1>>,
                        height |-> <<CurFinding.box.height, 1>>]

\* C12: for a finding with a seed box whose start frame can be loaded, the first
\* element of the path is the seed box in its original percentages (not the
\* tracking-space pixels), tagged with the start frame; when the start frame
\* cannot be loaded the returned path is empty.
C12_SeedFirst ==
    (InCall /\ HasBox(CurFinding)) =>
        IF StartLoads
        THEN LET path == IF Returned THEN tk.ret ELSE tk.results
             IN /\ path # <<>>
                /\ path[1] = [frame |-> tk.start_idx,
                              top |-> <<CurFinding.box.top, 1>>,
                              left |-> <<CurFinding.box.left, 1>>,
                              width |-> <<CurFinding.box.width, 1>>,
                              height |-> <<CurFinding.box.height, 1>>]
        ELSE Returned /\ tk.ret = <<>>

\* a downscaled start frame, a path that went on past the seed entry
C12_Witness ==
    /\ Returned /\ HasBox(CurFinding) /\ StartLoads
    /\ tk.scaled /\ Len(tk.ret) >= 2
    /\ tk.ret[1].top = <<40, 1>>

\* C13: the frame indices of a path are strictly increasing and lie between the
\* start frame and the end frame; no index occurs twice, the end frame included
\* when it falls on the sampling cadence.
C13_StrictlyIncreasing ==
    InCall =>
        /\ \A k \in 1..Len(tk.results) :
              tk.start_idx <= tk.results[k].frame /\ tk.results[k].frame <= tk.end_idx
        /\ \A k \in 1..(Len(tk.results) - 1) : tk.results[k].frame < tk.results[k + 1].frame
        /\ Returned => tk.ret \in {tk.results, <<>>}

\* the end frame lies on a cadence of two or more and closes the path
C13_Witness ==
    /\ Returned /\ tk.skip_rate >= 2
    /\ (tk.end_idx - tk.start_idx) % tk.skip_rate = 0
    /\ Len(tk.ret) >= 3
    /\ tk.ret[Len(tk.ret)].frame = tk.end_idx

\* C14 as stated, second half: when the tracker never reports failure the last
\* entry of the path is tagged with the end frame.
C14_Original ==
    (Returned /\ HasBox(CurFinding) /\ ~Lost /\ tk.ret # <<>>) =>
        tk.ret[Len(tk.ret)].frame = tk.end_idx

\* C14: frame i after the start frame and up to the end frame is sampled exactly
\* when (i - startFrame) % skipRate = 0 or i = endFrame; when the tracker never
\* reports failure and the end frame can be loaded, the last entry of a
\* non-empty path is tagged with the end frame.
C14_SamplingRule ==
    (InCall /\ HasBox(CurFinding) /\ StartLoads) =>
        /\ LET visited == (tk.start_idx + 1)..(IF Lost THEN tk.i ELSE tk.i - 1)
           IN tk.sampled = {j \in visited : \/ (j - tk.start_idx) % tk.skip_rate = 0
                                            \/ j = tk.end_idx}
        /\ (Returned /\ ~Lost /\ tk.end_idx \notin tk.bad) =>
              tk.ret[Len(tk.ret)].frame = tk.end_idx

\* the end frame is off a cadence of two or more and is sampled all the same
C14_Witness ==
    /\ Returned /\ ~Lost /\ tk.skip_rate >= 2
    /\ (tk.end_idx - tk.start_idx) % tk.skip_rate # 0
    /\ tk.end_idx \in tk.sampled
    /\ tk.ret[Len(tk.ret)].frame = tk.end_idx

\* C15: when the tracker's update fails at sampled frame f, track_finding stops
\* at once and returns exactly the entries gathered before f: no entry has a
\* frame index of f or more, the tracker is not updated again, nothing is raised.
C15_StopOnLoss ==
    Lost =>
        /\ tk.pc # "frames"
        /\ tk.exc = ""
        /\ Len(tk.tracker.lost_at) = 1
        /\ tk.tracker.updates[Len(tk.tracker.updates)] = LostFrame
        /\ \A k \in 1..Len(tk.results) : tk.results[k].frame < LostFrame
        /\ PathFrames(tk.results) =
              {tk.start_idx} \cup
              {tk.tracker.updates[k] : k \in 1..(Len(tk.tracker.updates) - 1)}
        /\ Returned => tk.ret = tk.results

\* the loss happens in the middle of the range, after some tracked entries
C15_Witness ==
    /\ Returned /\ Lost
    /\ LostFrame < tk.end_idx
    /\ Len(tk.ret) >= 2

\* C16: the frame indices are floor(seconds * frameRate), then clamped so that
\* 0 <= startFrame <= endFrame <= frameCount - 1, for every start and end time
\* and every frame sequence with at least one frame; no access to the frame
\* sequence is out of bounds.
C16_IndicesClamped ==
    /\ tk.pc # "idle" /\ tk.frame_paths >= 1 => tk.exc = ""
    /\ (InCall /\ HasBox(CurFinding)) =>
          LET n == tk.frame_paths
              s == Max(0, Min(FloorIdx(CurFinding.startTime), n - 1))
              e == Max(s, Min(FloorIdx(CurFinding.endTime), n - 1))
          IN /\ tk.start_idx = s /\ tk.end_idx = e
             /\ 0 <= tk.start_idx /\ tk.start_idx <= tk.end_idx /\ tk.end_idx <= n - 1
             /\ \A k \in 1..Len(tk.loads) : tk.loads[k] \in 0..(n - 1)

\* the end time lies before the start time and the start time beyond the stream
C16_Witness ==
    /\ Returned /\ HasBox(CurFinding)
    /\ FloorIdx(CurFinding.endTime) < FloorIdx(CurFinding.startTime)
    /\ FloorIdx(CurFinding.startTime) > tk.frame_paths - 1
    /\ tk.start_idx = tk.frame_paths - 1 /\ tk.end_idx = tk.start_idx
    /\ Len(tk.ret) = 1

\* C17: a finding with no seed box (key absent or value empty) gets an empty path
\* from track_finding, with no frame loaded and no tracker created or invoked,
\* and track_findings_in_job leaves that finding without a path.
C17_NoSeedNoPath ==
    /\ (Returned /\ ~HasBox(CurFinding)) =>
          /\ tk.ret = <<>>
          /\ tk.loads = <<>>
          /\ tk.tracker = NoTracker
    /\ tk.pc # "idle" =>
          \A k \in 1..Len(tk.findings) :
              (~tk.findings[k].box.has_key \/ tk.findings[k].box.empty) =>
                  ~tk.findings[k].has_path /\ tk.findings[k].path = <<>>

\* track_finding called with a finding whose box is present but empty
C17_Witness ==
    /\ Returned /\ tk.calls = 1
    /\ CurFinding.box.has_key /\ CurFinding.box.empty
    /\ tk.ret = <<>>

\* the job pass is over: one finding was tracked, the one without a box was not
C17_JobWitness ==
    /\ tk.pc = "done" /\ tk.mode = "job" /\ Len(tk.findings) = 2
    /\ tk.findings[1].has_path
    /\ ~tk.findings[2].box.has_key /\ ~tk.findings[2].has_path

\* C18: the start frame is downscaled whenever its long edge exceeds 640 pixels,
\* so that the long edge of the tracking space is 640; a frame whose long edge is
\* at most 640 is tracked at its own size; every later sampled frame reaches the
\* tracker in the same tracking-space dimensions.
C18_LongEdgeScaled ==
    (InCall /\ HasBox(CurFinding) /\ StartLoads) =>
        /\ IF Max(tk.width, tk.height) > max_track_dim
           THEN Max(tk.track_w, tk.track_h) = max_track_dim
           ELSE <<tk.track_w, tk.track_h>> = <<tk.width, tk.height>>
        /\ tk.fed = {<<tk.track_w, tk.track_h>>}


\* ==== masked effects: apply_blur_with_mask, apply_pixelate_with_mask =======
\* A frame is a row of pixels; a source pixel is [at |-> position, fx |-> "none"],
\* a mask pixel is a luminance 0 (black) .. 255 (white).
SrcWidth == 4          \* pixels in a row of the source
White == 255           \* full luminance of an 8-bit mask
PixelSize == 2         \* pixel_size of the calls

MaskValues == {0, 128, White}
MaskWidths == {SrcWidth \div 2, SrcWidth}
SourceRow == [i \in 1..SrcWidth |-> [at |-> i, fx |-> "none"]]
Suffixes == {".mp4", ".MP4", ".mov", ".mkv", ".avi", ".webm"}
\* input_video.suffix.lower()
Lower(suffix) == IF suffix = ".MP4" THEN ".mp4" ELSE suffix

\* ---- the filters of the media backend ------------------------------------
\* nearest-neighbour resize of a row to n pixels
Resize(row, n) == [i \in 1..n |-> row[((i - 1) * Len(row)) \div n + 1]]
BoxBlur(row) == [i \in 1..Len(row) |-> [row[i] EXCEPT !.fx = "blur"]]
\* scale=iw/N:ih/N:flags=neighbor: one pixel for every block of N
ScaleDown(row, n) ==
    [i \in 1..(Len(row) \div n) |-> [row[(i - 1) * n + 1] EXCEPT !.fx = "pixelate"]]
NegateOff(row) == row
Negate(row) == [i \in 1..Len(row) |-> White - row[i]]
\* maskedmerge: mask 0 keeps the first input, full mask takes the second
MaskedMerge(first, second, mask) ==
    [i \in 1..Len(first) |->
        IF mask[i] = 0 THEN first[i]
        ELSE IF mask[i] = White THEN second[i]
        ELSE [at |-> i, fx |-> "mix"]]

Node(ins, chain, outs) == [ins |-> ins, chain |-> chain, outs |-> outs]

\* apply_blur_with_mask: filter_complex
BlurFilterComplexUninverted ==
    << Node(<<"0:v">>, <<"split">>, <<"toscale", "toblur">>),
       Node(<<"toblur">>, <<"boxblur">>, <<"blurred">>),
       Node(<<"1:v", "toscale">>, <<"scale2ref">>, <<"mask_scaled", "original_ref">>),
       Node(<<"mask_scaled">>, <<"format=gray">>, <<"mask_inverted">>),
       Node(<<"blurred", "original_ref", "mask_inverted">>, <<"maskedmerge">>, <<"out">>) >>
BlurFilterComplex ==
    << Node(<<"0:v">>, <<"split">>, <<"toscale", "toblur">>),
       Node(<<"toblur">>, <<"boxblur">>, <<"blurred">>),
       Node(<<"1:v", "toscale">>, <<"scale2ref">>, <<"mask_scaled", "original_ref">>),
       Node(<<"mask_scaled">>, <<"format=gray", "negate">>, <<"mask_inverted">>),
       Node(<<"blurred", "original_ref", "mask_inverted">>, <<"maskedmerge">>, <<"out">>) >>

\* apply_pixelate_with_mask: the filter_complex that reaches the command
PixelateFilterComplex ==
    << Node(<<"1:v", "0:v">>, <<"scale2ref">>, <<"mask_scaled", "original_ref">>),
       Node(<<"original_ref">>, <<"split">>, <<"base", "toscale">>),
       Node(<<"toscale">>, <<"scale">>, <<"small">>),
       Node(<<"small", "base">>, <<"scale2ref">>, <<"pixelated", "base_ready">>),
       Node(<<"mask_scaled">>, <<"negate">>, <<"mask_inverted">>),
       Node(<<"pixelated", "base_ready", "mask_inverted">>, <<"maskedmerge">>, <<"out">>) >>

Labels ==
    {"0:v", "1:v", "toscale", "toblur", "blurred", "mask_scaled", "original_ref",
     "mask_inverted", "base", "small", "pixelated", "base_ready", "out"}

\* the output rows of one filter applied to its input rows
ApplyFilter(f, rows) ==
    CASE f = "split" -> <<rows[1], rows[1]>>
      [] f = "boxblur" -> <<BoxBlur(rows[1])>>
      [] f = "scale" -> <<ScaleDown(rows[1], PixelSize)>>
      [] f = "scale2ref" -> <<Resize(rows[1], Len(rows[2])), rows[2]>>
      [] f = "format=gray" -> <<rows[1]>>
      [] f = "negate" -> <<Negate(rows[1])>>
      [] f = "maskedmerge" -> <<MaskedMerge(rows[1], rows[2], rows[3])>>

RECURSIVE ApplyChain(_, _, _)
ApplyChain(chain, k, rows) ==
    IF k > Len(chain) THEN rows ELSE ApplyChain(chain, k + 1, ApplyFilter(chain[k], rows))

RECURSIVE RunGraph(_, _, _)
RunGraph(graph, k, env) ==
    IF k > Len(graph) THEN env
    ELSE LET node == graph[k]
             rows == ApplyChain(node.chain, 1, [j \in 1..Len(node.ins) |-> env[node.ins[j]]])
             bound == [l \in Labels |->
                          IF \E j \in 1..Len(node.outs) : node.outs[j] = l
                          THEN rows[CHOOSE j \in 1..Len(node.outs) : node.outs[j] = l]
                          ELSE env[l]]
         IN RunGraph(graph, k + 1, bound)

FilterOutput(graph, source, mask) ==
    RunGraph(graph, 1, [l \in Labels |-> IF l = "0:v" THEN source
                                          ELSE IF l = "1:v" THEN mask ELSE <<>>])["out"]

\* ---- the command lines ---------------------------------------------------
VideoArgs ==
    <<"ffmpeg", "-y", "-i", "input_video", "-i", "mask_video",
      "-filter_complex", "filter_complex", "-map", "[out]",
      "-c:v", "libx264", "-crf", "18", "-preset", "fast", "-pix_fmt", "yuv420p">>

\* the audio branch: audio_path is "none", "missing" (given, no such file) or "exists"
AudioArgs(audio_path, suffix) ==
    IF audio_path = "exists"
    THEN <<"-i", "audio_path", "-map", "2:a", "-c:a", "aac", "-shortest">>
    ELSE IF Lower(suffix) \in {".mp4", ".mov", ".mkv"}
         THEN <<"-map", "0:a?", "-c:a", "copy">>
         ELSE <<>>

EffectCmd(audio_path, suffix) == VideoArgs \o AudioArgs(audio_path, suffix) \o <<"output_path">>

\* The backend reads options in groups, each closed by the file it belongs to.
\* -map is an option of the output; in the group of an input it is rejected.
OptionError(cmd) ==
    \E k, j \in 1..Len(cmd) : k < j /\ cmd[k] = "-map" /\ cmd[j] = "-i"
\* the stream selections of the output
OutputMaps(cmd) ==
    {cmd[k + 1] : k \in {m \in 1..(Len(cmd) - 1) :
                            cmd[m] = "-map" /\ \A j \in (m + 1)..Len(cmd) : cmd[j] # "-i"}}
OutputAudio(cmd, src_audio) ==
    IF "2:a" \in OutputMaps(cmd) THEN "asset"
    ELSE IF "0:a?" \in OutputMaps(cmd) /\ src_audio THEN "source"
    ELSE "none"

NoOutput == [kind |-> "none", row |-> <<>>, audio |-> "none"]

\* one masked-effect call, from its arguments to its return or raise
ApplyMasked(graph, failure) ==
    \E env_ok \in BOOLEAN :
        LET cmd == EffectCmd(mc.audio_path, mc.suffix)
            ok == env_ok /\ ~OptionError(cmd)
        IN mc' = [mc EXCEPT
                    !.pc = "done",
                    !.cmd = cmd,
                    !.filter_complex = graph,
                    !.env_ok = env_ok,
                    !.output = IF ok
                               THEN [kind |-> "video",
                                     row |-> FilterOutput(graph, SourceRow, mc.mask),
                                     audio |-> OutputAudio(cmd, mc.src_audio)]
                               ELSE NoOutput,
                    !.result = IF ok THEN Raise("", "", FALSE, "returned")
                               ELSE Raise("RuntimeError", failure, TRUE, "raised")]

ApplyBlurWithMask ==
    /\ mc.pc = "call" /\ mc.effect = "blur"
    /\ ApplyMasked(BlurFilterComplex, "Failed to apply blur")
    /\ UNCHANGED <<spliceVars, tk, utilVars>>

ApplyPixelateWithMask ==
    /\ mc.pc = "call" /\ mc.effect = "pixelate"
    /\ ApplyMasked(PixelateFilterComplex, "Failed to apply pixelation")
    /\ UNCHANGED <<spliceVars, tk, utilVars>>

MaskRows == UNION {[1..w -> MaskValues] : w \in MaskWidths}

MaskCalls ==
    [pc : {"call"}, effect : {"blur", "pixelate"}, mask : MaskRows,
     suffix : Suffixes, src_audio : BOOLEAN, audio_path : {"none", "missing", "exists"},
     cmd : {<<>>}, filter_complex : {<<>>}, env_ok : {TRUE},
     output : {NoOutput}, result : {Running}]

InitMask ==
    /\ SpliceIdle
    /\ tk = TkIdle
    /\ mc \in MaskCalls
    /\ UtilIdle

NextMask == ApplyBlurWithMask \/ ApplyPixelateWithMask

SpecMask == InitMask /\ [][NextMask]_vars

\* ---- vocabulary of the masked-effect properties --------------------------
\* the call is over and the backend wrote the output
Composited == mc.pc = "done" /\ mc.result.status = "returned"
\* the mask as the merge sees it: one value for every pixel of the source
MaskAt(i) == mc.mask[((i - 1) * Len(mc.mask)) \div SrcWidth + 1]
Negations(graph) ==
    {<<k, j>> \in (1..Len(graph)) \X (1..2) :
        j <= Len(graph[k].chain) /\ graph[k].chain[j] = "negate"}

\* C19: in both masked effects the mask is inverted exactly once before the
\* merge, and the merge takes its inputs in the order that makes a white mask
\* pixel select the altered pixel and a black one the unmodified source pixel:
\* an all-black mask gives back the source, an all-white mask the altered frame.
C19_WhiteSelectsAltered ==
    mc.pc = "done" =>
        /\ Cardinality(Negations(mc.filter_complex)) = 1
        /\ Composited =>
              \A i \in 1..SrcWidth :
                  /\ MaskAt(i) = White => mc.output.row[i].fx = mc.effect
                  /\ MaskAt(i) = 0 => mc.output.row[i] = [at |-> i, fx |-> "none"]
                  /\ Len(mc.output.row) = SrcWidth

\* a pixelated output under a mask narrower than the source, white on one half
C19_Witness ==
    /\ Composited /\ mc.effect = "pixelate"
    /\ Len(mc.mask) < SrcWidth
    /\ MaskAt(1) = White /\ MaskAt(SrcWidth) = 0
    /\ mc.output.row[1].fx = "pixelate"
    /\ mc.output.row[SrcWidth] = [at |-> SrcWidth, fx |-> "none"]

\* C20: for both effects and every container of the source: with an explicit
\* audio asset the output's audio is that asset; without one the output carries
\* the source's own audio when the source has audio, and no audio, without an
\* error, when it has none.
C20_AudioCarried ==
    (mc.pc = "done" /\ mc.env_ok) =>
        /\ mc.result.status = "returned"
        /\ mc.output.audio = IF mc.audio_path # "none" THEN "asset"
                             ELSE IF mc.src_audio THEN "source" ELSE "none"


\* ==== normalize_video_fps called on its own ==============================
NoResolution == <<>>       \* target_resolution = None
NormFpsValues ==
    {DefaultFps * FpsDen + d : d \in {0 - 3, 0 - 2, 0 - 1, 0, 1, 2, 3}} \cup {24 * FpsDen}
NormTargets == {DefaultFps * FpsDen, 24 * FpsDen}

NormCalls ==
    [pc : {"call"}, clip_fps : NormFpsValues, clip_res : ReplResValues,
     target_fps : NormTargets, target_resolution : {NoResolution} \cup ReplResValues,
     preserve_audio : BOOLEAN,
     probe_ok : {TRUE}, current_fps : {0}, mode : {""}, backend_called : {FALSE},
     backend_ok : {TRUE}, output : {NoFile}, result : {Running}]

\* the filters and the audio options of the re-encode
NormFilters(target_fps, target_resolution) ==
    IF target_resolution # NoResolution THEN <<"fps", "scale", "pad">> ELSE <<"fps">>
NormAudio(preserve_audio) == IF preserve_audio THEN "aac" ELSE "none"

NormalizeVideoFps ==
    /\ nz.pc = "call"
    /\ \E probeOk \in BOOLEAN, backendOk \in BOOLEAN :
          LET current_fps == GetVideoFps(probeOk, nz.clip_fps)
              mode == NormalizeMode(current_fps, nz.target_fps, nz.target_resolution)
              ok == mode = "copy" \/ backendOk
              out == IF mode = "copy"
                     THEN [kind |-> "video", via |-> "copy", fps |-> nz.clip_fps,
                           res |-> nz.clip_res, filters |-> <<>>, audio |-> "copy"]
                     ELSE [kind |-> "video", via |-> "reencode", fps |-> nz.target_fps,
                           res |-> IF nz.target_resolution # NoResolution
                                   THEN nz.target_resolution ELSE nz.clip_res,
                           filters |-> NormFilters(nz.target_fps, nz.target_resolution),
                           audio |-> NormAudio(nz.preserve_audio)]
          IN nz' = [nz EXCEPT
                      !.pc = "done", !.probe_ok = probeOk, !.current_fps = current_fps,
                      !.mode = mode, !.backend_called = (mode # "copy"),
                      !.backend_ok = backendOk,
                      !.output = IF ok THEN out ELSE NoFile,
                      !.result = IF ok THEN Raise("", "", FALSE, "returned")
                                 ELSE Raise("RuntimeError", "Failed to normalize video fps",
                                            TRUE, "raised")]
    /\ UNCHANGED <<spliceVars, tk, mc, cc, fc, sp>>

InitNorm ==
    /\ SpliceIdle
    /\ tk = TkIdle /\ mc = McIdle
    /\ nz \in NormCalls
    /\ cc = [pc |-> "idle"] /\ fc = [pc |-> "idle"] /\ sp = [pc |-> "idle"]

NextNorm == NormalizeVideoFps

SpecNorm == InitNorm /\ [][NextNorm]_vars

\* ---- vocabulary of the normalizer properties -----------------------------
NormDone == nz.pc = "done"
\* less than 0.5 fps apart
Within(cur, tgt) == 2 * Abs(cur - tgt) < FpsDen
PassedThrough ==
    /\ nz.mode = "copy" /\ ~nz.backend_called
    /\ nz.result.status = "returned"
    /\ nz.output.kind = "video" /\ nz.output.via = "copy"
    /\ nz.output.fps = nz.clip_fps /\ nz.output.res = nz.clip_res

C22_MatchingClipCopied ==
    (/\ NormDone /\ nz.probe_ok
     /\ Within(nz.clip_fps, nz.target_fps)
     /\ nz.target_resolution # NoResolution
     /\ nz.clip_res = nz.target_resolution)
        => PassedThrough


\* ==== FrameExtractor.extract_frame_crop ==================================
\* Box values are percentages that are exact in binary floating point
\* (multiples of 25), so int(width * (value / 100)) is the integer quotient.
BoxPercents == {0, 25, 50, 75, 100}
CropFrameSizes == {<<1000, 800>>, <<1280, 720>>, <<3, 2>>, <<1, 1>>}
PercentOf(size, value) == (size * value) \div 100

\* lines 284-291: <<crop_w, crop_h, crop_x, crop_y>>
CropRect(width, height, box) ==
    LET crop_w == PercentOf(width, box.width)
        crop_h == PercentOf(height, box.height)
        crop_x == PercentOf(width, box.left)
        crop_y == PercentOf(height, box.top)
    IN <<Max(1, Min(crop_w, width - crop_x)), Max(1, Min(crop_h, height - crop_y)),
         crop_x, crop_y>>

CropCalls ==
    [pc : {"call"}, width : {d[1] : d \in CropFrameSizes}, height : {d[2] : d \in CropFrameSizes},
     has_box : BOOLEAN,
     box : [top : BoxPercents, left : BoxPercents, width : BoxPercents, height : BoxPercents],
     filters : {<<>>}, result : {Running}]

ExtractFrameCrop ==
    /\ fc.pc = "call"
    /\ \E infoOk \in BOOLEAN, backendOk \in BOOLEAN :
          fc' = IF fc.has_box /\ ~infoOk
                THEN [fc EXCEPT !.pc = "done",
                                !.result = Raise("RuntimeError", "Failed to get video info",
                                                 TRUE, "raised")]
                ELSE [fc EXCEPT
                        !.pc = "done",
                        !.filters = IF fc.has_box
                                    THEN <<CropRect(fc.width, fc.height, fc.box)>> ELSE <<>>,
                        !.result = IF backendOk THEN Raise("", "", FALSE, "returned")
                                   ELSE Raise("RuntimeError", "Failed to extract frame crop",
                                              TRUE, "raised")]
    /\ UNCHANGED <<spliceVars, tk, mc, nz, cc, sp>>

InitCrop ==
    /\ SpliceIdle
    /\ tk = TkIdle /\ mc = McIdle
    /\ nz = [pc |-> "idle"] /\ cc = [pc |-> "idle"] /\ sp = [pc |-> "idle"]
    /\ fc \in {c \in CropCalls : <<c.width, c.height>> \in CropFrameSizes
                                 /\ (~c.has_box => c.box = [top |-> 0, left |-> 0,
                                                           width |-> 0, height |-> 0])}

NextCrop == ExtractFrameCrop

SpecCrop == InitCrop /\ [][NextCrop]_vars

\* C23: the pixel crop rectangle of extract_frame_crop never exceeds the frame:
\* for every frame size and every box with values in 0..100,
\* crop_x + crop_w <= width, crop_y + crop_h <= height, crop_w >= 1, crop_h >= 1;
\* the box {top 0, left 0, width 50, height 50} on 1000x800 gives 500 by 400.
C23_CropInsideFrame ==
    (fc.pc = "done" /\ fc.filters # <<>>) =>
        LET crop == fc.filters[1]
        IN /\ crop[3] + crop[1] <= fc.width
           /\ crop[4] + crop[2] <= fc.height
           /\ crop[1] >= 1 /\ crop[2] >= 1
           /\ (/\ fc.width = 1000 /\ fc.height = 800
               /\ fc.box = [top |-> 0, left |-> 0, width |-> 50, height |-> 50])
                 => crop[1] = 500 /\ crop[2] = 400


\* ==== concat_clips and build_video_from_list ==============================
MaxClips == 3          \* longest list of clips
ClipNames == {"clipA", "clipB", "clipC"}
FrameNames == {"frame1", "frame2"}
RECURSIVE SeqsUpTo(_, _)
SeqsUpTo(S, n) ==
    IF n = 0 THEN {<<>>}
    ELSE SeqsUpTo(S, n - 1) \cup {Append(q, x) : q \in {r \in SeqsUpTo(S, n - 1) : Len(r) = n - 1}, x \in S}

\* a list operation before its first step
ListCall(operation, items, audio_path) ==
    [pc |-> "start", op |-> operation, clips |-> items, audio_path |-> audio_path,
     temp |-> {}, backend |-> <<>>, output |-> NoFile,
     pending |-> Running, result |-> Running]

ListCalls ==
    {ListCall("concat_clips", q, "none") : q \in SeqsUpTo(ClipNames, MaxClips)}
    \cup {ListCall("build_video_from_list", q, a) :
            q \in SeqsUpTo(FrameNames, MaxClips - 1), a \in {"none", "missing", "exists"}}

\* len(clips) == 1
SingleClipNever(clips) == FALSE
SingleClip(clips) == Len(clips) = 1

\* the lines written to concat_list_temp.txt, in order
RECURSIVE Reversed(_)
Reversed(q) == IF q = <<>> THEN <<>> ELSE Append(Reversed(Tail(q)), Head(q))
ConcatListLinesReversed(clips) == Reversed(clips)
ConcatListLines(clips) == clips

\* concat_clips up to the backend call: lines 571-589
ConcatClipsStart ==
    /\ cc.pc = "start" /\ cc.op = "concat_clips"
    /\ cc' = IF cc.clips = <<>>
             THEN [cc EXCEPT !.pc = "done",
                             !.result = Raise("ValueError", "No clips provided for concatenation",
                                              FALSE, "raised")]
             ELSE IF SingleClip(cc.clips)
             THEN [cc EXCEPT !.pc = "done",
                             !.output = [kind |-> "video", via |-> "copy",
                                         content |-> <<cc.clips[1]>>],
                             !.result = Raise("", "", FALSE, "returned")]
             ELSE [cc EXCEPT !.pc = "run",
                             !.temp = cc.temp \cup {"concat_list_temp.txt"},
                             !.backend = <<>>,
                             !.output = NoFile,
                             !.pending = Running]
    /\ UNCHANGED <<spliceVars, tk, mc, nz, fc, sp>>

\* the concat demuxer with -c copy: lines 591-606
ConcatClipsRun ==
    /\ cc.pc = "run" /\ cc.op = "concat_clips"
    /\ \E backendOk \in BOOLEAN :
          LET lines == ConcatListLines(cc.clips)
          IN cc' = [cc EXCEPT
                      !.pc = "finally",
                      !.backend = Append(cc.backend, lines),
                      !.output = IF backendOk
                                 THEN [kind |-> "video", via |-> "concat", content |-> lines]
                                 ELSE NoFile,
                      !.pending = IF backendOk THEN Raise("", "", FALSE, "returned")
                                  ELSE Raise("RuntimeError", "Failed to concatenate clips",
                                             TRUE, "raised")]
    /\ UNCHANGED <<spliceVars, tk, mc, nz, fc, sp>>

\* finally: lines 607-612
ConcatClipsFinally ==
    /\ cc.pc = "finally" /\ cc.op = "concat_clips"
    /\ cc' = [cc EXCEPT !.pc = "done",
                        !.temp = cc.temp \ {"concat_list_temp.txt"},
                        !.result = cc.pending]
    /\ UNCHANGED <<spliceVars, tk, mc, nz, fc, sp>>

\* build_video_from_list up to the backend call: lines 99-130
BuildListStart ==
    /\ cc.pc = "start" /\ cc.op = "build_video_from_list"
    /\ cc' = [cc EXCEPT !.pc = "run", !.temp = cc.temp \cup {"frames_list.txt"}]
    /\ UNCHANGED <<spliceVars, tk, mc, nz, fc, sp>>

\* the backend call and what follows it: lines 132-139
BuildListRun ==
    /\ cc.pc = "run" /\ cc.op = "build_video_from_list"
    /\ \E backendOk \in BOOLEAN :
          cc' = IF backendOk
                THEN [cc EXCEPT
                        !.pc = "done",
                        !.backend = Append(cc.backend, cc.clips),
                        !.temp = cc.temp \ {"frames_list.txt"},
                        !.output = [kind |-> "video", via |-> "encode", content |-> cc.clips],
                        !.result = Raise("", "", FALSE, "returned")]
                ELSE [cc EXCEPT
                        !.pc = "done",
                        !.backend = Append(cc.backend, cc.clips),
                        !.result = Raise("RuntimeError", "Failed to build video", TRUE, "raised")]
    /\ UNCHANGED <<spliceVars, tk, mc, nz, fc, sp>>

InitClips ==
    /\ SpliceIdle
    /\ tk = TkIdle /\ mc = McIdle
    /\ nz = [pc |-> "idle"] /\ fc = [pc |-> "idle"] /\ sp = [pc |-> "idle"]
    /\ cc \in ListCalls

NextClips ==
    \/ ConcatClipsStart
    \/ ConcatClipsRun
    \/ ConcatClipsFinally
    \/ BuildListStart
    \/ BuildListRun

SpecClips == InitClips /\ [][NextClips]_vars

\* ---- vocabulary of the list operations -----------------------------------
ConcatOver == cc.pc = "done" /\ cc.op = "concat_clips"
TempLists == {"frames_list.txt", "concat_list_temp.txt"}

\* C24: concat_clips with exactly one clip makes the output a byte copy of that
\* clip and runs no backend concatenation or re-encode.
C24_SingleClipCopied ==
    (cc.pc # "idle" /\ cc.op = "concat_clips" /\ Len(cc.clips) = 1) =>
        /\ cc.backend = <<>>
        /\ cc.temp = {}
        /\ cc.pc \in {"start", "done"}
        /\ cc.pc = "done" =>
              /\ cc.result.status = "returned"
              /\ cc.output = [kind |-> "video", via |-> "copy", content |-> <<cc.clips[1]>>]

C24_Witness ==
    /\ ConcatOver /\ cc.clips = <<"clipB">>
    /\ cc.output.via = "copy" /\ cc.backend = <<>>

\* C25: concat_clips with an empty list fails with an invalid-input error and
\* writes no output file; with two or more clips it lists them for the backend
\* in exactly the order given.
C25_EmptyRejectedOrderKept ==
    (cc.pc # "idle" /\ cc.op = "concat_clips") =>
        /\ (cc.clips = <<>>) =>
              /\ cc.output = NoFile /\ cc.backend = <<>> /\ cc.temp = {}
              /\ cc.pc = "done" =>
                    cc.result.status = "raised" /\ cc.result.exc = "ValueError"
        /\ (Len(cc.clips) >= 2) =>
              /\ \A k \in 1..Len(cc.backend) : cc.backend[k] = cc.clips
              /\ cc.pc \in {"finally", "done"} => Len(cc.backend) = 1
              /\ (cc.pc = "done" /\ cc.result.status = "returned") =>
                    cc.output.content = cc.clips

\* three clips, one of them twice, listed as given
C25_Witness ==
    /\ ConcatOver /\ cc.clips = <<"clipB", "clipA", "clipB">>
    /\ cc.backend = <<cc.clips>>
    /\ cc.result.status = "returned"

\* the empty list is refused
C25_EmptyWitness ==
    ConcatOver /\ cc.clips = <<>> /\ cc.result.exc = "ValueError"

\* C26: every temporary list file an operation writes (frames_list.txt,
\* concat_list_temp.txt) is removed on every exit path, whether the backend
\* succeeds or fails.
C26_ListFilesRemoved ==
    cc.pc = "done" => cc.temp \cap TempLists = {}


\* ==== further properties of the tracking pass =============================
\* C27: track_findings_in_job changes no field of any finding other than path:
\* id, startTime, endTime, box and type stay as given for every finding, and
\* the list keeps its length and order, whatever the outcome of the tracking.
C27_OnlyPathChanges ==
    tk.pc # "idle" =>
        /\ Len(tk.findings) = Len(tk.given)
        /\ \A k \in 1..Len(tk.given) :
              /\ tk.findings[k].id = tk.given[k].id
              /\ tk.findings[k].type = tk.given[k].type
              /\ tk.findings[k].startTime = tk.given[k].startTime
              /\ tk.findings[k].endTime = tk.given[k].endTime
              /\ tk.findings[k].box = tk.given[k].box

\* a pass over two findings is over: both were tracked and carry a path
C27_Witness ==
    /\ tk.pc = "done" /\ tk.mode = "job" /\ tk.exc = ""
    /\ Len(tk.findings) = 2
    /\ tk.findings[1].has_path /\ tk.findings[2].has_path
    /\ Len(tk.findings[2].path) >= 2

\* sampled frames of the current call that could not be read
Unreadable == tk.sampled \cap tk.bad

\* C30: a sampled frame after the start frame that cannot be loaded is skipped:
\* it adds no path entry, does not update the tracker and does not end the
\* tracking, so later sampled frames are still processed and the path stays
\* strictly increasing; only an unloadable start frame empties the result.
C30_UnreadableSkipped ==
    (InCall /\ HasBox(CurFinding)) =>
        /\ StartLoads =>
              /\ \A j \in Unreadable :
                    /\ j \notin PathFrames(tk.results)
                    /\ \A k \in 1..Len(tk.tracker.updates) : tk.tracker.updates[k] # j
              /\ (Returned /\ ~Lost) =>
                    /\ tk.i = tk.end_idx + 1
                    /\ PathFrames(tk.ret) = {tk.start_idx} \cup (tk.sampled \ tk.bad)
              /\ \A k \in 1..(Len(tk.results) - 1) :
                    tk.results[k].frame < tk.results[k + 1].frame
        /\ Returned => (tk.ret = <<>> <=> ~StartLoads)

\* an unreadable frame in the middle of the range, tracked frames on both sides
C30_Witness ==
    /\ Returned /\ ~Lost /\ StartLoads
    /\ \E j \in Unreadable :
          /\ \E k \in 2..Len(tk.ret) : tk.ret[k].frame < j
          /\ \E k \in 2..Len(tk.ret) : tk.ret[k].frame > j


\* ==== a further property of insert_segment ================================
\* C29: in every insert_segment run the frame rate that turns the time range into
\* cut frame indices (get_video_info) equals the frame rate used as the target
\* of the replacement's normalization (get_video_fps), also when the second
\* probe of the original fails and get_video_fps falls back to its default.
C29_SameRate ==
    \A p \in Procs :
        (Inserting(p) /\ norm[p].done) => norm[p].target_fps = video_info[p].fps


\* ==== AudioSeparator.separate_vocals_and_music ===========================
MaxSepEvents == 3      \* calls and cache clearings in one history

\* files the separation library may leave in the cache directory of the video
StemNames == {"in_(Vocals).wav", "in_(Instrumental).wav", "in_(No_Vocals).wav",
              "in_(Bass).wav", "in_(Drums).wav"}
\* "vocal" in filename_lower
NamesVocals(name) == name \in {"in_(Vocals).wav", "in_(No_Vocals).wav"}
\* the elif: "instrumental", "no_vocal" or "music" in filename_lower
NamesInstrumental(name) ==
    ~NamesVocals(name) /\ name \in {"in_(Instrumental).wav", "in_(No_Vocals).wav"}

Cached(dir) == "vocals.wav" \in dir /\ "instrumental.wav" \in dir

\* lines 137-144: the renames of the listed output files
AfterRenames(dir, output_files) ==
    (dir \ {n \in output_files : NamesVocals(n) \/ NamesInstrumental(n)})
    \cup (IF \E n \in output_files : NamesVocals(n) THEN {"vocals.wav"} ELSE {})
    \cup (IF \E n \in output_files : NamesInstrumental(n) THEN {"instrumental.wav"} ELSE {})

\* lines 149-150: remaining_files
Remaining(dir) == dir \ {"full_audio.wav", "vocals.wav", "instrumental.wav"}

\* lines 146-160: the directories the fallback can leave (the order of a glob is not fixed)
AfterFallback(dir) ==
    IF Cached(dir) THEN {dir}
    ELSE IF Cardinality(Remaining(dir)) >= 2
    THEN UNION {{(dir \ {a, b}) \cup {"vocals.wav", "instrumental.wav"} :
                     b \in Remaining(dir) \ {a}} : a \in Remaining(dir)}
    ELSE IF Cardinality(Remaining(dir)) = 1
    THEN {(dir \ Remaining(dir)) \cup {"vocals.wav", "instrumental.wav"}}
    ELSE {dir}

SepEvent(kind, force, status, exc, hit, extracted, separated, both) ==
    [op |-> kind, force |-> force, status |-> status, exc |-> exc, hit |-> hit,
     extracted |-> extracted, separated |-> separated, both |-> both]

\* the call has ended: its record joins the history
SepEnd(t, status, exc, hit, extracted, separated, dir) ==
    [t EXCEPT !.pc = "ready", !.dir = dir,
              !.hist = Append(t.hist, SepEvent("call", t.force, status, exc, hit,
                                               extracted, separated, Cached(dir)))]

\* line 106
CacheHit(force_reprocess, dir) == ~force_reprocess /\ Cached(dir)

\* lines 94-111: from the call to the cache check
SeparateStart ==
    /\ sp.pc = "ready"
    /\ Len(sp.hist) < MaxSepEvents
    /\ \E force_reprocess \in BOOLEAN :
          LET t == [sp EXCEPT !.force = force_reprocess]
          IN sp' = IF ~sp.video_exists
                   THEN SepEnd(t, "raised", "FileNotFoundError", FALSE, FALSE, FALSE, sp.dir)
                   ELSE IF CacheHit(force_reprocess, sp.dir)
                   THEN SepEnd(t, "returned", "", TRUE, FALSE, FALSE, sp.dir)
                   ELSE [t EXCEPT !.pc = "extract"]
    /\ UNCHANGED <<spliceVars, tk, mc, nz, cc, fc>>

\* lines 113-115 and _extract_audio
SeparateExtract ==
    /\ sp.pc = "extract"
    /\ \E backendOk \in BOOLEAN :
          sp' = IF backendOk
                THEN [sp EXCEPT !.pc = "separate", !.dir = sp.dir \cup {"full_audio.wav"}]
                ELSE SepEnd(sp, "raised", "RuntimeError", FALSE, TRUE, FALSE, sp.dir)
    /\ UNCHANGED <<spliceVars, tk, mc, nz, cc, fc>>

\* lines 118-174: the separation model, the renames, the fallback, the clean-up
SeparateRun ==
    /\ sp.pc = "separate"
    /\ \/ \E failure \in {"ImportError", "Exception"} :
             sp' = SepEnd(sp, "raised", "RuntimeError", FALSE, TRUE, failure = "Exception", sp.dir)
       \/ \E output_files \in SUBSET StemNames :
             \E dir \in AfterFallback(AfterRenames(sp.dir \cup output_files, output_files)) :
                sp' = SepEnd(sp, "returned", "", FALSE, TRUE, TRUE, dir \ {"full_audio.wav"})
    /\ UNCHANGED <<spliceVars, tk, mc, nz, cc, fc>>

\* clear_cache(video_path): the cache directory of the video is removed
ClearCache ==
    /\ sp.pc = "ready"
    /\ Len(sp.hist) < MaxSepEvents
    /\ sp.video_exists
    /\ sp' = [sp EXCEPT !.dir = {},
                        !.hist = Append(sp.hist, SepEvent("clear", FALSE, "returned", "", FALSE,
                                                          FALSE, FALSE, FALSE))]
    /\ UNCHANGED <<spliceVars, tk, mc, nz, cc, fc>>

InitSep ==
    /\ SpliceIdle
    /\ tk = TkIdle /\ mc = McIdle
    /\ nz = [pc |-> "idle"] /\ cc = [pc |-> "idle"] /\ fc = [pc |-> "idle"]
    /\ sp \in [pc : {"ready"}, video_exists : BOOLEAN, dir : {{}}, force : {FALSE},
               hist : {<<>>}]

NextSep ==
    \/ SeparateStart
    \/ SeparateExtract
    \/ SeparateRun
    \/ ClearCache

SpecSep == InitSep /\ [][NextSep]_vars

\* ---- vocabulary of the separator properties ------------------------------
\* call k is not forced and follows call j, which returned without error; the
\* cache was not cleared in between
Follows(j, k) ==
    /\ j < k
    /\ sp.hist[j].op = "call" /\ sp.hist[j].status = "returned"
    /\ sp.hist[k].op = "call" /\ ~sp.hist[k].force
    /\ \A c \in (j + 1)..(k - 1) : sp.hist[c].op # "clear"
\* call k found the cache: it returned the two paths, the files are there,
\* nothing was extracted and the model was not run
IsCacheHit(k) ==
    /\ sp.hist[k].status = "returned" /\ sp.hist[k].hit /\ sp.hist[k].both
    /\ ~sp.hist[k].extracted /\ ~sp.hist[k].separated

\* C28: an unforced call made after an earlier call on the same unchanged file
\* returned without error is a cache hit: it returns the same paths, both files
\* exist, and neither the audio extraction nor the separation model runs again.
C28_SecondCallCacheHit ==
    sp.pc # "idle" =>
        \A j, k \in 1..Len(sp.hist) : Follows(j, k) => IsCacheHit(k)

\* the case the cache is written for: the first call left both files
SepBothThenHit ==
    sp.pc # "idle" =>
        \A j, k \in 1..Len(sp.hist) : (Follows(j, k) /\ sp.hist[j].both) => IsCacheHit(k)

====
